---- MODULE Spec2Model ----
(***************************************************************************)
(* Retirement-Simulation: the Monte Carlo engine of                        *)
(* src/services/monteCarlo.ts and the request handling of src/App.tsx.     *)
(*                                                                         *)
(* Numbers.  The program computes in IEEE doubles.  Here every currency    *)
(* amount is an integer number of cents and every fraction (a return, a    *)
(* fee rate, a weight, a tolerance) an integer number of basis points; a   *)
(* product amount * fraction is rounded down to a whole cent.  The         *)
(* thresholds of the code keep their value: 0.01 is one cent, 1 is a       *)
(* hundred cents, 1e12 (squared dollars) is 1e16 squared cents.            *)
(* Non-finite doubles (NaN, Infinity) are outside this model.              *)
(***************************************************************************)
EXTENDS Integers, Sequences, FiniteSets, TLC

\* Cents per currency unit: the code's amounts are in currency units.
CENTS == 100

\* Basis points per unit fraction: 1.0 is 10000 basis points.
BP == 10000

Min(a, b) == IF a <= b THEN a ELSE b

Abs(a) == IF a < 0 THEN -a ELSE a

\* Body(value), with value evaluated once (a local constant of the code).
Bind(value, Body(_)) == CHOOSE r \in {Body(x) : x \in {value}} : TRUE

\* amount * (num / BP), rounded down, without leaving 32-bit integers:
\* amount = q * BP + r with 0 <= r < BP.
Times(amount, num) ==
  LET q == amount \div BP
      r == amount % BP
  IN q * num + ((r * num) \div BP)

(***************************************************************************)
(* 1. CONFIGURATION                                                        *)
(***************************************************************************)

Strategies == {"BUCKET", "CONSERVATIVE", "AGGRESSIVE", "CUSTOM"}

\* The depletion threshold of simulateYear and getTerminalStats, 0.01.
DEPLETION_THRESHOLD == 1

\* The failure threshold of runSimulation (finalVal <= 1).
FAILURE_THRESHOLD == 100

\* Annual rebalancing drag, 0.0005 of the total.
REBALANCE_DRAG == 5

\* NOMINAL_ASSUMPTIONS as the module is loaded, lines 7-11, in basis points.
NominalTable ==
  [STOCK |-> [mean |-> 850, stdDev |-> 1700],
   BOND  |-> [mean |-> 400, stdDev |-> 500],
   CASH  |-> [mean |-> 250, stdDev |-> 150]]

\* CORRELATION_MATRIX as the module is loaded, lines 15-19, in basis points.
CorrelationTable ==
  <<<<10000, -1500, 500>>, <<-1500, 10000, 1500>>, <<500, 1500, 10000>>>>

(***************************************************************************)
(* 2. MATHEMATICAL HELPERS                                                 *)
(***************************************************************************)

\* Math.sqrt of a fraction x (in basis points squared), rounded down.
Isqrt(x) == CHOOSE r \in 0 .. BP : r * r <= x /\ (r + 1) * (r + 1) > x

\* choleskyDecompose, lines 34-47: the entry L[i][j]; the inner loop over k
\* runs over at most two columns of a 3 x 3 matrix.
RECURSIVE CholEntry(_, _, _)
CholEntry(matrix, i, j) ==
  IF j > i THEN 0
  ELSE LET Term(k) == IF k < j
                        THEN (CholEntry(matrix, i, k) * CholEntry(matrix, j, k))
                               \div BP
                        ELSE 0
           sum == Term(1) + Term(2)
       IN IF i = j THEN Isqrt((matrix[i][i] - sum) * BP)
          ELSE ((matrix[i][j] - sum) * BP) \div CholEntry(matrix, j, j)

choleskyDecompose(matrix) ==
  [i \in 1 .. Len(matrix) |->
     [j \in 1 .. Len(matrix) |-> CholEntry(matrix, i, j)]]

\* CHOL_L as the module is loaded, line 50.
CholeskyFactor == choleskyDecompose(CorrelationTable)

\* A double that may be non-finite: a finite value v, or Infinity, or NaN.
Finite(v) == [finite |-> TRUE, v |-> v]

NonFinite == [finite |-> FALSE, v |-> 0]

\* a / b for b in basis points: a finite quotient, or Infinity when b is 0
\* (the numerators here are never 0).
Divide(a, b) == IF b = 0 THEN NonFinite ELSE Finite((a * BP) \div b)

\* getLogParams, lines 71-78: term = 1 + arithMean, and whether mu_log and
\* sigma_log come out finite.  term * term / phi is 0 or NaN exactly when
\* term is 0 or infinite; Math.log and Math.sqrt then give -Infinity or NaN.
\* The values of mu_log and sigma_log are not computed.
getLogParams(arithMean, arithStd) ==
  LET term == IF arithMean.finite THEN Finite(BP + arithMean.v) ELSE NonFinite
  IN [term |-> term, finite |-> term.finite /\ term.v # 0]

\* generateAnnualReturns, lines 56-91: whether the three returns are finite.
ReturnsFinite(realAssumptions) ==
  /\ getLogParams(realAssumptions.STOCK.mean, realAssumptions.STOCK.stdDev).finite
  /\ getLogParams(realAssumptions.BOND.mean, realAssumptions.BOND.stdDev).finite
  /\ getLogParams(realAssumptions.CASH.mean, realAssumptions.CASH.stdDev).finite

(***************************************************************************)
(* 3. SIMULATION LOGIC: simulateYear                                       *)
(***************************************************************************)

\* The weights set up at the head of runSimulation and generateAuditLog.
TargetWeights(inp, strat) ==
  CASE strat = "CONSERVATIVE" -> [stock |-> 6000, bond |-> 4000]
    [] strat = "AGGRESSIVE"   -> [stock |-> 7000, bond |-> 3000]
    [] strat = "CUSTOM"       ->
         [stock |-> inp.customStockAllocation * 100,
          bond  |-> BP - inp.customStockAllocation * 100]
    [] OTHER                  -> [stock |-> 0, bond |-> 0]

\* YearPrefix with growth added to a bucket instead of multiplying it
\* (state.x + (1 + returns.x) for state.x * (1 + returns.x)).
YearPrefixAdditive(st, returns, inp) ==
  LET grossStock == st.stock + Times(CENTS, BP + returns.stock)
      grossBond  == st.bond + Times(CENTS, BP + returns.bond)
      grossCash  == st.cash + Times(CENTS, BP + returns.cash)
      stockFee   == Times(grossStock, inp.managementFee)
      bondFee    == Times(grossBond, inp.managementFee)
      currStock  == grossStock - stockFee
      currBond   == grossBond - bondFee
      currCash   == grossCash
      totalAvailable == currStock + currBond + currCash
  IN [growth |-> (grossStock - st.stock) + (grossBond - st.bond)
                   + (grossCash - st.cash),
      fees |-> stockFee + bondFee,
      currStock |-> currStock, currBond |-> currBond, currCash |-> currCash,
      totalAvailable |-> totalAvailable,
      actualWithdrawal |-> Min(st.spend, totalAvailable)]

\* YearPrefix with the fee charged on the grown cash bucket as well.
YearPrefixFeeOnCash(st, returns, inp) ==
  LET grossStock == Times(st.stock, BP + returns.stock)
      grossBond  == Times(st.bond, BP + returns.bond)
      grossCash  == Times(st.cash, BP + returns.cash)
      stockFee   == Times(grossStock, inp.managementFee)
      bondFee    == Times(grossBond, inp.managementFee)
      cashFee    == Times(grossCash, inp.managementFee)
      currStock  == grossStock - stockFee
      currBond   == grossBond - bondFee
      currCash   == grossCash - cashFee
      totalAvailable == currStock + currBond + currCash
  IN [growth |-> (grossStock - st.stock) + (grossBond - st.bond)
                   + (grossCash - st.cash),
      fees |-> stockFee + bondFee + cashFee,
      currStock |-> currStock, currBond |-> currBond, currCash |-> currCash,
      totalAvailable |-> totalAvailable,
      actualWithdrawal |-> Min(st.spend, totalAvailable)]

\* Steps 1-3 of simulateYear: growth, fees, withdrawal.
YearPrefix(st, returns, inp) ==
  LET grossStock == Times(st.stock, BP + returns.stock)
      grossBond  == Times(st.bond, BP + returns.bond)
      grossCash  == Times(st.cash, BP + returns.cash)
      stockFee   == Times(grossStock, inp.managementFee)
      bondFee    == Times(grossBond, inp.managementFee)
      currStock  == grossStock - stockFee
      currBond   == grossBond - bondFee
      currCash   == grossCash
      totalAvailable == currStock + currBond + currCash
  IN [growth |-> (grossStock - st.stock) + (grossBond - st.bond)
                   + (grossCash - st.cash),
      fees |-> stockFee + bondFee,
      currStock |-> currStock, currBond |-> currBond, currCash |-> currCash,
      totalAvailable |-> totalAvailable,
      actualWithdrawal |-> Min(st.spend, totalAvailable)]

\* The branch "totalAvailable <= 0.01" and the depleted fixed-allocation branch.
DepletedBuckets ==
  [stock |-> 0, bond |-> 0, cash |-> 0, refillAmount |-> 0,
   actionLog |-> "Portfolio Depleted."]

\* BucketBranch with the spending step taking from stock first and from
\* cash only for the shortfall.
BucketBranchStockFirst(st, returns, p) ==
  LET targetBuffer == 2 * st.spend
      refill == returns.stock > 0 /\ p.currStock > 0
                  /\ p.currCash < targetBuffer
      refillAmount == IF refill
                        THEN Min(targetBuffer - p.currCash, p.currStock)
                        ELSE 0
      stock1 == p.currStock - refillAmount
      cash1  == p.currCash + refillAmount
      fromStock == stock1 >= p.actualWithdrawal
      shortfall == p.actualWithdrawal - stock1
      stock2 == IF fromStock THEN stock1 - p.actualWithdrawal ELSE 0
      left   == cash1 - shortfall
      cash2  == IF fromStock THEN cash1 ELSE IF left < 0 THEN 0 ELSE left
  IN [stock |-> stock2, bond |-> p.currBond, cash |-> cash2,
      refillAmount |-> refillAmount,
      actionLog |->
        IF returns.stock < 0
          THEN IF cash2 > 0 THEN "Market Down. Spending from Cash Buffer."
                            ELSE "Market Down. Cash Empty! Forced Stock Sell."
          ELSE IF refillAmount > 0 THEN "Market Up. Refilled Cash."
                                   ELSE "Market Up."]

\* BucketBranch with the refill arriving in cash less a haircut of
\* REBALANCE_DRAG of the sale.
BucketBranchRefillHaircut(st, returns, p) ==
  LET targetBuffer == 2 * st.spend
      refill == returns.stock > 0 /\ p.currStock > 0
                  /\ p.currCash < targetBuffer
      refillAmount == IF refill
                        THEN Min(targetBuffer - p.currCash, p.currStock)
                        ELSE 0
      stock1 == p.currStock - refillAmount
      cash1  == p.currCash + refillAmount
                  - Times(refillAmount, REBALANCE_DRAG)
      fromCash == cash1 >= p.actualWithdrawal
      shortfall == p.actualWithdrawal - cash1
      cash2  == IF fromCash THEN cash1 - p.actualWithdrawal ELSE 0
      sold   == stock1 - shortfall
      stock2 == IF fromCash THEN stock1 ELSE IF sold < 0 THEN 0 ELSE sold
  IN [stock |-> stock2, bond |-> p.currBond, cash |-> cash2,
      refillAmount |-> refillAmount,
      actionLog |->
        IF returns.stock < 0
          THEN IF cash2 > 0 THEN "Market Down. Spending from Cash Buffer."
                            ELSE "Market Down. Cash Empty! Forced Stock Sell."
          ELSE IF refillAmount > 0 THEN "Market Up. Refilled Cash."
                                   ELSE "Market Up."]

\* The BUCKET branch of simulateYear.
BucketBranch(st, returns, p) ==
  LET targetBuffer == 2 * st.spend
      refill == returns.stock > 0 /\ p.currStock > 0
                  /\ p.currCash < targetBuffer
      refillAmount == IF refill
                        THEN Min(targetBuffer - p.currCash, p.currStock)
                        ELSE 0
      stock1 == p.currStock - refillAmount
      cash1  == p.currCash + refillAmount
      fromCash == cash1 >= p.actualWithdrawal
      shortfall == p.actualWithdrawal - cash1
      cash2  == IF fromCash THEN cash1 - p.actualWithdrawal ELSE 0
      sold   == stock1 - shortfall
      stock2 == IF fromCash THEN stock1 ELSE IF sold < 0 THEN 0 ELSE sold
  IN [stock |-> stock2, bond |-> p.currBond, cash |-> cash2,
      refillAmount |-> refillAmount,
      actionLog |->
        IF returns.stock < 0
          THEN IF cash2 > 0 THEN "Market Down. Spending from Cash Buffer."
                            ELSE "Market Down. Cash Empty! Forced Stock Sell."
          ELSE IF refillAmount > 0 THEN "Market Up. Refilled Cash."
                                   ELSE "Market Up."]

\* FixedBranch rebalancing whatever is left, without the depleted case.
FixedBranchNoFloor(p, targetWeights) ==
  LET afterWithdrawal == (p.currStock + p.currBond + p.currCash)
                           - p.actualWithdrawal
      rebalanceDrag == Times(afterWithdrawal, REBALANCE_DRAG)
      total == afterWithdrawal - rebalanceDrag
  IN [stock |-> Times(total, targetWeights.stock),
      bond  |-> Times(total, targetWeights.bond),
      cash  |-> 0, refillAmount |-> 0, actionLog |-> "Rebalanced."]

\* FixedBranch without the rebalancing drag.
FixedBranchNoDrag(p, targetWeights) ==
  LET total == (p.currStock + p.currBond + p.currCash) - p.actualWithdrawal
  IN IF total > DEPLETION_THRESHOLD
       THEN [stock |-> Times(total, targetWeights.stock),
             bond  |-> Times(total, targetWeights.bond),
             cash  |-> 0, refillAmount |-> 0, actionLog |-> "Rebalanced."]
       ELSE DepletedBuckets

\* The fixed-allocation branch of simulateYear.
FixedBranch(p, targetWeights) ==
  LET afterWithdrawal == (p.currStock + p.currBond + p.currCash)
                           - p.actualWithdrawal
      rebalanceDrag == Times(afterWithdrawal, REBALANCE_DRAG)
      total == afterWithdrawal - rebalanceDrag
  IN IF total > DEPLETION_THRESHOLD
       THEN [stock |-> Times(total, targetWeights.stock),
             bond  |-> Times(total, targetWeights.bond),
             cash  |-> 0, refillAmount |-> 0, actionLog |-> "Rebalanced."]
       ELSE DepletedBuckets

\* simulateYear handing on what was withdrawn as the next year's spend.
simulateYearSpendWithdrawn(st, returns, inp, strat, targetWeights) ==
  LET p == YearPrefix(st, returns, inp)
      b == IF p.totalAvailable <= DEPLETION_THRESHOLD THEN DepletedBuckets
           ELSE IF strat = "BUCKET" THEN BucketBranch(st, returns, p)
           ELSE FixedBranch(p, targetWeights)
  IN [nextState |-> [stock |-> b.stock, bond |-> b.bond, cash |-> b.cash,
                     spend |-> p.actualWithdrawal],
      withdrawal |-> p.actualWithdrawal,
      fees |-> p.fees,
      growth |-> p.growth,
      actionLog |-> b.actionLog]

simulateYear(st, returns, inp, strat, targetWeights) ==
  LET p == YearPrefix(st, returns, inp)
      b == IF p.totalAvailable <= DEPLETION_THRESHOLD THEN DepletedBuckets
           ELSE IF strat = "BUCKET" THEN BucketBranch(st, returns, p)
           ELSE FixedBranch(p, targetWeights)
  IN [nextState |-> [stock |-> b.stock, bond |-> b.bond, cash |-> b.cash,
                     spend |-> st.spend],
      withdrawal |-> p.actualWithdrawal,
      fees |-> p.fees,
      growth |-> p.growth,
      actionLog |-> b.actionLog]

(***************************************************************************)
(* 4. runSimulation: the Monte Carlo driver                                *)
(***************************************************************************)

\* Number of simulated runs (10000 in the code, reduced here).
NUM_SIMULATIONS == 4

\* Longest horizon of the single-run specification SpecYear.
MaxYears == 3

\* Most requests the user issues in the App specification SpecApp.
MaxRequests == 4

\* Most calls of runSimulation in the specification SpecCalls.
MaxCalls == 2

VARIABLES
  inputs,               \* runSimulation's request
  strategy,             \* runSimulation's strategy argument
  pc,                   \* position in runSimulation
  sim,                  \* index of the run being simulated
  year,                 \* index of the year being simulated
  state,                \* the SimState of the current run
  currentRunReturns,    \* returns drawn so far in the current run
  currentRunTrajectory, \* totals recorded so far in the current run
  allRuns,              \* the SimulationRun records
  trajectories,         \* per year, the totals of every run
  failures,             \* runs whose final balance is <= 1
  auditRuns,            \* the runs selected for the three audit ledgers
  result,               \* the SimulationResult, once returned
  lastOutcome,          \* the YearOutcome of the run's latest simulateYear
  realAssumptions,      \* runSimulation's REAL_ASSUMPTIONS
  NOMINAL_ASSUMPTIONS,  \* monteCarlo.ts: the nominal assumption table
  CORRELATION_MATRIX,   \* monteCarlo.ts: the correlation matrix
  CHOL_L,               \* monteCarlo.ts: the Cholesky factor
  calls,                \* number of runSimulation calls entered so far
  view,                 \* App: 'SETUP' or 'SIMULATION'
  isSimulating,         \* App: the loading flag
  appInputs,            \* App: the inputs state
  selectedStrategy,     \* App: the selected strategy
  results,              \* App: the published results
  timers,               \* App: the pending setTimeout callbacks, in order
  issued                \* App: number of simulation requests issued so far

\* The objects of the module monteCarlo.ts, which outlive a call.
moduleVars == <<NOMINAL_ASSUMPTIONS, CORRELATION_MATRIX, CHOL_L, calls>>

engineVars == <<inputs, strategy, pc, sim, year, state, currentRunReturns,
                currentRunTrajectory, allRuns, trajectories, failures,
                auditRuns, result, lastOutcome, realAssumptions, moduleVars>>

appVars == <<view, isSimulating, appInputs, selectedStrategy, results, timers,
             issued>>

vars == <<engineVars, appVars>>

NoResult == [returned |-> FALSE]

\* The default inputs of App, lines 25-33: amounts in cents, managementFee
\* in basis points of the total (0.30 percent is 30), inflationRate in
\* basis points (3.0 percent is 300), customStockAllocation in percent.
DefaultInputs ==
  [initialCash |-> 10000 * CENTS, initialInvestments |-> 500000 * CENTS,
   annualSpend |-> 30000 * CENTS, timeHorizon |-> 30, inflationRate |-> 300,
   managementFee |-> 30, customStockAllocation |-> 50]

\* Requests of the specification Spec: the default amounts, a portfolio of
\* 1.20 spending 0.60 a year, one that spends most of itself in a year, one
\* with a negative amount and an allocation above 100, and one with nothing
\* to start from; each over the horizons -1 .. 2.
Requests ==
  {[r EXCEPT !.timeHorizon = h] :
     r \in {DefaultInputs,
            [DefaultInputs EXCEPT !.initialCash = 0,
                                  !.initialInvestments = 120,
                                  !.annualSpend = 60],
            [DefaultInputs EXCEPT !.initialCash = 1000 * CENTS,
                                  !.initialInvestments = 50000 * CENTS,
                                  !.annualSpend = 40000 * CENTS],
            [DefaultInputs EXCEPT !.initialCash = -100 * CENTS,
                                  !.customStockAllocation = 150],
            [DefaultInputs EXCEPT !.initialCash = 0,
                                  !.initialInvestments = 0]},
     h \in -1 .. 2}

\* One year's returns of the three assets, in basis points, as
\* generateAnnualReturns draws them: a bad year and a good year.
Returns ==
  {[stock |-> -5000, bond |-> -500, cash |-> 0],
   [stock |-> 10000, bond |-> 1000, cash |-> 200]}

\* Requests of the specification SpecWide: a portfolio of 4,000,000 spending
\* 100,000 a year over two years, without fees.
WideRequests ==
  {[DefaultInputs EXCEPT !.initialCash = 0,
                         !.initialInvestments = 4000000 * CENTS,
                         !.annualSpend = 100000 * CENTS,
                         !.managementFee = 0,
                         !.timeHorizon = 2]}

\* The returns of SpecWide: a bad, a flat and a good year for stocks.
WideReturns ==
  {[stock |-> -5000, bond |-> 0, cash |-> 0],
   [stock |-> 0, bond |-> 0, cash |-> 0],
   [stock |-> 10000, bond |-> 0, cash |-> 0]}

\* Requests of the specification SpecYear, all with non-negative amounts and
\* an allocation within 0 .. 100: fees of 0, 0.30 and 150 percent a year.
YearRequests ==
  {[r EXCEPT !.timeHorizon = h, !.managementFee = f, !.annualSpend = w] :
     r \in {[DefaultInputs EXCEPT !.initialCash = 0,
                                  !.initialInvestments = 100 * CENTS],
            [DefaultInputs EXCEPT !.initialCash = 20 * CENTS,
                                  !.initialInvestments = 80 * CENTS,
                                  !.customStockAllocation = 100]},
     h \in 1 .. MaxYears,
     f \in {0, 30, 15000},
     w \in {0, 30 * CENTS, 40 * CENTS, 120 * CENTS}}

\* The returns of SpecYear: total loss, a bad year, a flat year with positive
\* cash return, a good year.
YearReturns ==
  {[stock |-> -10000, bond |-> -10000, cash |-> 0],
   [stock |-> -5000, bond |-> -500, cash |-> 0],
   [stock |-> 0, bond |-> 0, cash |-> 200],
   [stock |-> 10000, bond |-> 1000, cash |-> 200]}

\* The initial state of a run, runSimulation lines 399-412.
\* InitialState setting the two-year cash buffer aside under every strategy.
InitialStateBufferForAll(inp, strat) ==
  LET totalStartPortfolio == inp.initialCash + inp.initialInvestments
      w == TargetWeights(inp, strat)
      cash == Min(totalStartPortfolio, 2 * inp.annualSpend)
  IN IF strat = "BUCKET"
       THEN [stock |-> totalStartPortfolio - cash, bond |-> 0, cash |-> cash,
             spend |-> inp.annualSpend]
       ELSE [stock |-> Times(totalStartPortfolio - cash, w.stock),
             bond  |-> Times(totalStartPortfolio - cash, w.bond),
             cash  |-> cash, spend |-> inp.annualSpend]

\* InitialState with a BUCKET run starting all in stock, without the buffer.
InitialStateNoBuffer(inp, strat) ==
  LET totalStartPortfolio == inp.initialCash + inp.initialInvestments
      w == TargetWeights(inp, strat)
  IN IF strat = "BUCKET"
       THEN [stock |-> totalStartPortfolio, bond |-> 0, cash |-> 0,
             spend |-> inp.annualSpend]
       ELSE [stock |-> Times(totalStartPortfolio, w.stock),
             bond  |-> Times(totalStartPortfolio, w.bond),
             cash  |-> 0, spend |-> inp.annualSpend]

InitialState(inp, strat) ==
  LET totalStartPortfolio == inp.initialCash + inp.initialInvestments
      w == TargetWeights(inp, strat)
      cash == Min(totalStartPortfolio, 2 * inp.annualSpend)
  IN IF strat = "BUCKET"
       THEN [stock |-> totalStartPortfolio - cash, bond |-> 0, cash |-> cash,
             spend |-> inp.annualSpend]
       ELSE [stock |-> Times(totalStartPortfolio, w.stock),
             bond  |-> Times(totalStartPortfolio, w.bond),
             cash  |-> 0, spend |-> inp.annualSpend]

ZeroState == [stock |-> 0, bond |-> 0, cash |-> 0, spend |-> 0]

\* App before any event: the useState defaults of App, lines 21-36.
AppIdle ==
  /\ view = "SETUP"
  /\ isSimulating = FALSE
  /\ appInputs = DefaultInputs
  /\ selectedStrategy = "BUCKET"
  /\ results = NoResult
  /\ timers = <<>>
  /\ issued = 0

\* REAL_ASSUMPTIONS before runSimulation has computed it.
NoAssumptions == <<>>

\* No year simulated yet in the current call.
NoOutcome == [nextState |-> ZeroState, withdrawal |-> 0, fees |-> 0,
              growth |-> 0, actionLog |-> ""]

\* monteCarlo.ts once loaded, lines 7-50: the tables, and the Cholesky
\* factor computed from the correlation matrix; no call made yet.
ModuleLoaded ==
  /\ NOMINAL_ASSUMPTIONS = NominalTable
  /\ CORRELATION_MATRIX = CorrelationTable
  /\ CHOL_L = CholeskyFactor
  /\ calls = 1

\* runSimulation entered with a request of reqs.
Entered(reqs) ==
  /\ inputs \in reqs
  /\ strategy \in Strategies
  /\ pc = "entry"
  /\ sim = 0
  /\ year = 0
  /\ state = ZeroState
  /\ currentRunReturns = <<>>
  /\ currentRunTrajectory = <<>>
  /\ allRuns = <<>>
  /\ trajectories = <<>>
  /\ failures = 0
  /\ auditRuns = <<>>
  /\ result = NoResult
  /\ lastOutcome = NoOutcome
  /\ realAssumptions = NoAssumptions
  /\ ModuleLoaded

Init == Entered(Requests) /\ AppIdle

\* Array(timeHorizon) throws a RangeError for a negative length.
ArrayThrows(length) == length < 0

\* inflate, line 383: (1 + val) / (1 + inflationRate / 100) - 1.
inflate(val, inflationRate) ==
  LET q == Divide(BP + val, BP + inflationRate)
  IN IF q.finite THEN Finite(q.v - BP) ELSE NonFinite

\* deflateVol, line 384: val / (1 + inflationRate / 100).
deflateVol(val, inflationRate) == Divide(val, BP + inflationRate)

\* One entry of REAL_ASSUMPTIONS, lines 387-389.
RealAssumption(nominal, inflationRate) ==
  [mean |-> inflate(nominal.mean, inflationRate),
   stdDev |-> deflateVol(nominal.stdDev, inflationRate)]

\* SetUp writing the deflated values into the module's table, which then
\* serves as REAL_ASSUMPTIONS.
SetUpInPlace(nominal, inflationRate) ==
  LET deflated == [a \in DOMAIN nominal |->
                     [mean |-> nominal[a].mean
                                 - (inflationRate * (BP + nominal[a].mean))
                                     \div (BP + inflationRate),
                      stdDev |-> (nominal[a].stdDev * BP)
                                   \div (BP + inflationRate)]]
  IN [nominal |-> deflated,
      real |-> [a \in DOMAIN nominal |->
                  RealAssumption(nominal[a], inflationRate)]]

\* runSimulation lines 380-390: REAL_ASSUMPTIONS is a new object built from
\* NOMINAL_ASSUMPTIONS, which is read only.
SetUp(nominal, inflationRate) ==
  [nominal |-> nominal,
   real |-> [a \in DOMAIN nominal |->
               RealAssumption(nominal[a], inflationRate)]]

\* runSimulation lines 370-395: set-up; no request is examined except by
\* Array(timeHorizon).
Begin ==
  /\ pc = "entry"
  /\ \E tables \in {SetUp(NOMINAL_ASSUMPTIONS, inputs.inflationRate)} :
       /\ NOMINAL_ASSUMPTIONS' = tables.nominal
       /\ realAssumptions' = tables.real
  /\ IF ArrayThrows(inputs.timeHorizon)
       THEN /\ pc' = "threw"
            /\ UNCHANGED trajectories
       ELSE /\ pc' = "sim"
            /\ trajectories' = [y \in 1 .. inputs.timeHorizon |-> <<>>]
  /\ UNCHANGED <<inputs, strategy, sim, year, state, currentRunReturns,
                 currentRunTrajectory, allRuns, failures, auditRuns, result,
                 lastOutcome, CORRELATION_MATRIX, CHOL_L, calls>>
  /\ UNCHANGED appVars

\* runSimulation lines 397-418: the head of one run.
StartRun ==
  /\ pc = "sim"
  /\ sim < NUM_SIMULATIONS
  /\ state' = InitialState(inputs, strategy)
  /\ currentRunReturns' = <<>>
  /\ currentRunTrajectory' = <<>>
  /\ year' = 0
  /\ pc' = "year"
  /\ UNCHANGED <<inputs, strategy, sim, allRuns, trajectories, failures,
                 auditRuns, result, lastOutcome, realAssumptions>>
  /\ UNCHANGED moduleVars
  /\ UNCHANGED appVars

\* TotalPortfolio leaving the cash bucket out of the recorded total.
TotalPortfolioInvested(st) ==
  LET t == st.stock + st.bond
  IN IF t < 0 THEN 0 ELSE t

\* The total recorded in the trajectory, runSimulation lines 429-430.
TotalPortfolio(st) ==
  LET t == st.stock + st.bond + st.cash
  IN IF t < 0 THEN 0 ELSE t

\* runSimulation lines 420-443: one year of one run, the returns drawn
\* from drawn.
Year(drawn) ==
  /\ pc = "year"
  /\ year < inputs.timeHorizon
  /\ ReturnsFinite(realAssumptions)
  /\ \E returns \in drawn :
     \E outcome \in {simulateYear(state, returns, inputs, strategy,
                                  TargetWeights(inputs, strategy))} :
       LET totalPortfolio == TotalPortfolio(outcome.nextState)
       IN /\ currentRunReturns' = Append(currentRunReturns, returns)
          /\ lastOutcome' = outcome
          /\ state' = outcome.nextState
          /\ currentRunTrajectory' = Append(currentRunTrajectory, totalPortfolio)
          /\ trajectories' =
               [trajectories EXCEPT ![year + 1] = Append(@, totalPortfolio)]
  /\ year' = year + 1
  /\ UNCHANGED <<inputs, strategy, pc, sim, allRuns, failures, auditRuns,
                 result, realAssumptions>>
  /\ UNCHANGED moduleVars
  /\ UNCHANGED appVars

\* The same year when generateAnnualReturns returns a triple that is not
\* finite: NaN enters the portfolio state, which is followed no further.
YearNonFinite ==
  /\ pc = "year"
  /\ year < inputs.timeHorizon
  /\ ~ReturnsFinite(realAssumptions)
  /\ pc' = "nonfinite"
  /\ UNCHANGED <<inputs, strategy, sim, year, state, currentRunReturns,
                 currentRunTrajectory, allRuns, trajectories, failures,
                 auditRuns, result, lastOutcome, realAssumptions>>
  /\ UNCHANGED moduleVars
  /\ UNCHANGED appVars

YearStep == Year(Returns)

\* IsFailure with the depletion threshold 0.01 in place of 1.
IsFailureAtDepletion(finalVal) == finalVal <= DEPLETION_THRESHOLD

\* runSimulation lines 445-446: a run fails when its final balance is <= 1.
IsFailure(finalVal) == finalVal <= FAILURE_THRESHOLD

\* runSimulation lines 445-463: the tail of one run.
FinishRun ==
  /\ pc = "year"
  /\ year >= inputs.timeHorizon
  /\ LET finalVal == state.stock + state.bond + state.cash
     IN /\ failures' = IF IsFailure(finalVal) THEN failures + 1 ELSE failures
        /\ allRuns' = Append(allRuns,
                        [id |-> sim, finalBalance |-> finalVal,
                         trajectory |-> currentRunTrajectory,
                         annualReturns |-> currentRunReturns])
  /\ sim' = sim + 1
  /\ pc' = "sim"
  /\ UNCHANGED <<inputs, strategy, year, state, currentRunReturns,
                 currentRunTrajectory, trajectories, auditRuns, result,
                 lastOutcome, realAssumptions>>
  /\ UNCHANGED moduleVars
  /\ UNCHANGED appVars

(***************************************************************************)
(* generateAuditLog                                                        *)
(***************************************************************************)

\* The weights of generateAuditLog, lines 250-254.
AuditTargetWeights(inp, strat) ==
  CASE strat = "CONSERVATIVE" -> [stock |-> 6000, bond |-> 4000]
    [] strat = "AGGRESSIVE"   -> [stock |-> 7000, bond |-> 3000]
    [] strat = "CUSTOM"       ->
         [stock |-> inp.customStockAllocation * 100,
          bond  |-> BP - inp.customStockAllocation * 100]
    [] OTHER                  -> [stock |-> 0, bond |-> 0]

\* AuditInitialState without the BUCKET cash buffer: the replay starts with
\* everything in stock.
AuditInitialStateNoBuffer(inp, strat) ==
  LET totalStartPortfolio == inp.initialCash + inp.initialInvestments
      w == AuditTargetWeights(inp, strat)
  IN IF strat = "BUCKET"
       THEN [stock |-> totalStartPortfolio, bond |-> 0, cash |-> 0,
             spend |-> inp.annualSpend]
       ELSE [stock |-> Times(totalStartPortfolio, w.stock),
             bond  |-> Times(totalStartPortfolio, w.bond),
             cash  |-> 0, spend |-> inp.annualSpend]

\* The initial state of the replay, generateAuditLog lines 256-269.
AuditInitialState(inp, strat) ==
  LET totalStartPortfolio == inp.initialCash + inp.initialInvestments
      w == AuditTargetWeights(inp, strat)
      cash == Min(totalStartPortfolio, 2 * inp.annualSpend)
  IN IF strat = "BUCKET"
       THEN [stock |-> totalStartPortfolio - cash, bond |-> 0, cash |-> cash,
             spend |-> inp.annualSpend]
       ELSE [stock |-> Times(totalStartPortfolio, w.stock),
             bond  |-> Times(totalStartPortfolio, w.bond),
             cash  |-> 0, spend |-> inp.annualSpend]

\* AuditRow with the end total leaving the cash bucket out.
AuditRowEndInvested(st, returns, outcome, y) ==
  [year |-> y,
   startCash |-> st.cash, startStock |-> st.stock, startBond |-> st.bond,
   stockReturn |-> returns.stock, bondReturn |-> returns.bond,
   cashReturn |-> returns.cash,
   growthAmount |-> outcome.growth, feesAmount |-> outcome.fees,
   action |-> outcome.actionLog, withdrawal |-> outcome.withdrawal,
   endTotal |-> outcome.nextState.stock + outcome.nextState.bond]

\* One AuditRow, generateAuditLog lines 272-293; year is the offset from the
\* current calendar year.
AuditRow(st, returns, outcome, y) ==
  [year |-> y,
   startCash |-> st.cash, startStock |-> st.stock, startBond |-> st.bond,
   stockReturn |-> returns.stock, bondReturn |-> returns.bond,
   cashReturn |-> returns.cash,
   growthAmount |-> outcome.growth, feesAmount |-> outcome.fees,
   action |-> outcome.actionLog, withdrawal |-> outcome.withdrawal,
   endTotal |-> outcome.nextState.stock + outcome.nextState.bond
                  + outcome.nextState.cash]

\* The loop of generateAuditLog, lines 271-296, from year y in state st.
RECURSIVE AuditLoop(_, _, _, _, _)
AuditLoop(inp, strat, annualReturns, st, y) ==
  IF y > inp.timeHorizon THEN <<>>
  ELSE LET returns == annualReturns[y]
           outcome == simulateYear(st, returns, inp, strat,
                                   AuditTargetWeights(inp, strat))
       IN <<AuditRow(st, returns, outcome, y)>>
            \o AuditLoop(inp, strat, annualReturns, outcome.nextState, y + 1)

generateAuditLog(inp, strat, annualReturns) ==
  AuditLoop(inp, strat, annualReturns, AuditInitialState(inp, strat), 1)

(***************************************************************************)
(* findBestFitRun                                                          *)
(***************************************************************************)

\* Squared errors exceed 32 bits: a number is five limbs in base LIMB, most
\* significant first.
LIMB == 10000

BigZero == <<0, 0, 0, 0, 0>>

\* d * d for 0 <= d < 2^31, limbs not yet normalised.
BigSquare(d) ==
  LET d0 == d % LIMB
      d1 == (d \div LIMB) % LIMB
      d2 == d \div (LIMB * LIMB)
  IN <<d2 * d2, 2 * d1 * d2, 2 * d0 * d2 + d1 * d1, 2 * d0 * d1, d0 * d0>>

BigAdd(a, b) == [i \in 1 .. 5 |-> a[i] + b[i]]

\* Carries propagated: every limb but the first is below LIMB.
BigNorm(a) ==
  LET s5 == a[5]
      s4 == a[4] + (s5 \div LIMB)
      s3 == a[3] + (s4 \div LIMB)
      s2 == a[2] + (s3 \div LIMB)
      s1 == a[1] + (s2 \div LIMB)
  IN <<s1, s2 % LIMB, s3 % LIMB, s4 % LIMB, s5 % LIMB>>

RECURSIVE BigLessFrom(_, _, _)
BigLessFrom(a, b, i) ==
  IF i > 5 THEN FALSE
  ELSE IF a[i] # b[i] THEN a[i] < b[i]
  ELSE BigLessFrom(a, b, i + 1)

\* a < b for normalised a, b.
BigLess(a, b) == BigLessFrom(a, b, 1)

\* The penalty 1e12 of one ordering violation: 1e16 squared cents = LIMB^4.
PENALTY == <<1, 0, 0, 0, 0>>

\* Number.MAX_VALUE, above every error the loop can compute.
MAX_VALUE == <<2147483647, 0, 0, 0, 0>>

\* getTerminalStats, lines 300-307 (finalValue is undefined for an empty
\* trajectory: hasFinal is then FALSE).
getTerminalStats(trajectory) ==
  LET hits == {i \in 1 .. Len(trajectory) :
                 trajectory[i] <= DEPLETION_THRESHOLD}
      depletionIndex ==
        IF hits = {} THEN -1
        ELSE (CHOOSE i \in hits : \A j \in hits : i <= j) - 1
  IN [depleted |-> depletionIndex # -1,
      depletionYear |-> depletionIndex,
      hasFinal |-> Len(trajectory) > 0,
      finalValue |-> IF Len(trajectory) > 0
                       THEN trajectory[Len(trajectory)] ELSE 0]

\* The tolerances tried in turn, 0.01 .. 0.20, in basis points.
Tolerances == <<100, 200, 500, 1000, 2000>>

\* A tolerance is adopted when more than this many runs are within it.
MIN_CANDIDATES == 5

\* The runs whose final value is within tol of the target's, lines 326-330.
WithinTolerance(runs, targetStats, tol) ==
  SelectSeq(runs,
    LAMBDA r :
      /\ targetStats.hasFinal
      /\ Len(r.trajectory) > 0
      /\ Abs(r.trajectory[Len(r.trajectory)] - targetStats.finalValue)
           <= Times(targetStats.finalValue, tol))

RECURSIVE ToleranceLoop(_, _, _)
ToleranceLoop(runs, targetStats, k) ==
  IF k > Len(Tolerances) THEN runs
  ELSE LET filtered == WithinTolerance(runs, targetStats, Tolerances[k])
       IN IF Len(filtered) > MIN_CANDIDATES THEN filtered
          ELSE ToleranceLoop(runs, targetStats, k + 1)

\* The candidate runs, lines 315-337.
Candidates(runs, targetCurve) ==
  LET targetStats == getTerminalStats(targetCurve)
      chosen ==
        IF targetStats.depleted
          THEN SelectSeq(runs,
                 LAMBDA r :
                   LET rStats == getTerminalStats(r.trajectory)
                   IN /\ rStats.depleted
                      /\ Abs(rStats.depletionYear - targetStats.depletionYear)
                           <= 1)
          ELSE ToleranceLoop(runs, targetStats, 1)
  IN IF Len(chosen) = 0 THEN runs ELSE chosen

\* No comparison curve (the downturn selection).
NoComparison == [given |-> FALSE, curve |-> <<>>]

\* comparisonFn of runSimulation lines 500-501: val >= compareVal.
comparisonFn(runVal, compareVal) == runVal >= compareVal

\* error + penalty of one run over years 1 .. n, lines 345-355.
RECURSIVE ErrorUpTo(_, _, _, _)
ErrorUpTo(run, targetCurve, comparison, n) ==
  IF n = 0 THEN BigZero
  ELSE LET rest == ErrorUpTo(run, targetCurve, comparison, n - 1)
       IN IF n > Len(run.trajectory) THEN rest
          ELSE LET sq == BigSquare(Abs(run.trajectory[n] - targetCurve[n]))
                   violated ==
                     /\ comparison.given
                     /\ \/ n > Len(comparison.curve)
                        \/ ~comparisonFn(run.trajectory[n], comparison.curve[n])
               IN BigAdd(BigAdd(rest, sq),
                         IF violated THEN PENALTY ELSE BigZero)

\* The selection loop, lines 339-360, from candidate k on.
RECURSIVE BestLoop(_, _, _, _, _, _)
BestLoop(cands, targetCurve, comparison, k, bestRun, minError) ==
  IF k > Len(cands) THEN bestRun
  ELSE Bind(BigNorm(ErrorUpTo(cands[k], targetCurve, comparison,
                              Len(targetCurve))),
         LAMBDA total :
           IF BigLess(total, minError)
             THEN BestLoop(cands, targetCurve, comparison, k + 1, cands[k],
                           total)
             ELSE BestLoop(cands, targetCurve, comparison, k + 1, bestRun,
                           minError))

findBestFitRun(runs, targetCurve, comparison) ==
  Bind(Candidates(runs, targetCurve),
       LAMBDA cands :
         BestLoop(cands, targetCurve, comparison, 1, cands[1], MAX_VALUE))

(***************************************************************************)
(* runSimulation: aggregation and output                                   *)
(***************************************************************************)

\* SortAscending with the sort left out.
NotSorted(values) == values

\* yearValues.sort((a, b) => a - b)
SortAscending(values) == SortSeq(values, LAMBDA a, b : a < b)

\* Math.floor(NUM_SIMULATIONS * p) for p = 0.10, 0.25, 0.50; pct in percent.
PercentileIndex(pct) == (NUM_SIMULATIONS * pct) \div 100

\* The value of a sorted column at a percentile (sequences start at 1).
AtPercentile(sorted, pct) == sorted[PercentileIndex(pct) + 1]

\* Every year's column sorted, as the map callback of lines 472-473 leaves it.
SortedColumns(cols) == [y \in 1 .. Len(cols) |-> SortAscending(cols[y])]

\* One curve: per year, the percentile of that year's sorted column.
Curve(sortedCols, pct) ==
  [y \in 1 .. Len(sortedCols) |-> AtPercentile(sortedCols[y], pct)]

\* ChartData without the year-0 point (the unshift left out).
ChartDataNoYearZero(sortedCols, totalStartPortfolio) ==
  [y \in 1 .. Len(sortedCols) |->
     [year |-> y,
      downturn |-> AtPercentile(sortedCols[y], 10),
      belowAverage |-> AtPercentile(sortedCols[y], 25),
      average |-> AtPercentile(sortedCols[y], 50)]]

\* chartData, lines 472-496, with the year-0 point put in front.
ChartData(sortedCols, totalStartPortfolio) ==
  <<[year |-> 0, downturn |-> totalStartPortfolio,
     belowAverage |-> totalStartPortfolio, average |-> totalStartPortfolio]>>
  \o [y \in 1 .. Len(sortedCols) |->
        [year |-> y,
         downturn |-> AtPercentile(sortedCols[y], 10),
         belowAverage |-> AtPercentile(sortedCols[y], 25),
         average |-> AtPercentile(sortedCols[y], 50)]]

\* The runs selected for the audit, lines 499-501.
SelectRuns(runs, sortedCols) ==
  Bind(findBestFitRun(runs, Curve(sortedCols, 10), NoComparison),
    LAMBDA downturnRun :
      Bind(findBestFitRun(runs, Curve(sortedCols, 25),
                          [given |-> TRUE, curve |-> downturnRun.trajectory]),
        LAMBDA belowAvgRun :
          [downturn |-> downturnRun,
           belowAvg |-> belowAvgRun,
           median |-> findBestFitRun(runs, Curve(sortedCols, 50),
                        [given |-> TRUE, curve |-> belowAvgRun.trajectory])]))

\* SuccessRate reporting the share of failed runs.
FailureRate(failed) == (failed * 100 * CENTS) \div NUM_SIMULATIONS

\* successRate, line 528, in basis points of a percent (75.00 is 7500).
SuccessRate(failed) ==
  ((NUM_SIMULATIONS - failed) * 100 * CENTS) \div NUM_SIMULATIONS

\* floor(acc + r * M / b) for 0 <= r < b, M the product of the radices from
\* the k-th on of 10000 = 5 * 5 * 5 * 5 * 2 * 2 * 2 * 2: long division, one
\* digit a step, within 32-bit integers.
RECURSIVE LongDivide(_, _, _, _)
LongDivide(acc, r, b, k) ==
  IF k > 8 THEN acc
  ELSE LET m == IF k <= 4 THEN 5 ELSE 2
       IN LongDivide(acc * m + (r * m) \div b, (r * m) % b, b, k + 1)

\* a / b as a fraction in basis points, rounded down; NaN or an infinity
\* when b is 0.
Quotient(a, b) ==
  IF b = 0 THEN NonFinite
  ELSE IF b < 0 THEN Finite(LongDivide((-a) \div (-b), (-a) % (-b), -b, 1))
  ELSE Finite(LongDivide(a \div b, a % b, b, 1))

\* The allocation reported in the result, lines 512-521.
DisplayAllocation(inp, strat) ==
  LET totalStartPortfolio == inp.initialCash + inp.initialInvestments
      w == TargetWeights(inp, strat)
      startCash == Min(totalStartPortfolio, 2 * inp.annualSpend)
      dispCash == Quotient(startCash, totalStartPortfolio)
  IN IF strat = "BUCKET"
       THEN [stock |-> IF dispCash.finite THEN Finite(BP - dispCash.v)
                       ELSE NonFinite,
             bond |-> Finite(0),
             cash |-> dispCash]
       ELSE [stock |-> Finite(w.stock), bond |-> Finite(w.bond),
             cash |-> Finite(0)]

\* runSimulation lines 465-534: aggregation, selection, replay, result.
Aggregate ==
  /\ pc = "sim"
  /\ sim >= NUM_SIMULATIONS
  /\ \E sortedCols \in {SortedColumns(trajectories)} :
     \E picked \in {SelectRuns(allRuns, sortedCols)} :
       LET allFinals == SortAscending([i \in 1 .. Len(allRuns) |->
                                         allRuns[i].finalBalance])
       IN /\ trajectories' = sortedCols
          /\ auditRuns' = picked
          /\ result' =
               [returned |-> TRUE,
                data |-> ChartData(sortedCols,
                           inputs.initialCash + inputs.initialInvestments),
                auditLogAverage |->
                  generateAuditLog(inputs, strategy,
                                   picked.median.annualReturns),
                auditLogBelowAverage |->
                  generateAuditLog(inputs, strategy,
                                   picked.belowAvg.annualReturns),
                auditLogDownturn |->
                  generateAuditLog(inputs, strategy,
                                   picked.downturn.annualReturns),
                successRate |-> SuccessRate(failures),
                finalMedianValue |-> AtPercentile(allFinals, 50),
                allocation |-> DisplayAllocation(inputs, strategy)]
  /\ pc' = "done"
  /\ UNCHANGED <<inputs, strategy, sim, year, state, currentRunReturns,
                 currentRunTrajectory, allRuns, failures, lastOutcome,
                 realAssumptions>>
  /\ UNCHANGED moduleVars
  /\ UNCHANGED appVars

Next == Begin \/ StartRun \/ YearStep \/ FinishRun \/ Aggregate

Spec == Init /\ [][Next]_vars

(***************************************************************************)
(* SpecWide: the same program over three kinds of year                     *)
(***************************************************************************)

InitWide == Entered(WideRequests) /\ AppIdle

YearStepWide == Year(WideReturns)

NextWide == Begin \/ StartRun \/ YearStepWide \/ FinishRun \/ Aggregate

SpecWide == InitWide /\ [][NextWide]_vars

(***************************************************************************)
(* SpecYear: the first run of runSimulation over more requests and returns *)
(***************************************************************************)

InitYear == Entered(YearRequests) /\ AppIdle

FirstRun == sim = 0 /\ StartRun

YearStepAny == Year(YearReturns)

NextYear == Begin \/ FirstRun \/ YearStepAny

SpecYear == InitYear /\ [][NextYear]_vars

(***************************************************************************)
(* SpecCalls: runSimulation called again and again                         *)
(***************************************************************************)

\* Requests of the specification SpecCalls: one-year horizons under three
\* inflation rates, and a request whose call throws.
CallRequests ==
  {[DefaultInputs EXCEPT !.timeHorizon = 1, !.inflationRate = i] :
     i \in {0, 300, 600}}
  \cup {[DefaultInputs EXCEPT !.timeHorizon = -1]}

InitCalls == Entered(CallRequests) /\ AppIdle

\* A further call of runSimulation (runSimulationAsync line 44,
\* handleCustomAllocationChange line 67) once the previous one has returned
\* or thrown: the parameters are bound to the new arguments and every local
\* of lines 370-396 is created anew; the objects of the module are those the
\* previous call left.
Reenter ==
  /\ pc \in {"done", "threw"}
  /\ calls < MaxCalls
  /\ calls' = calls + 1
  /\ inputs' \in CallRequests
  /\ strategy' \in Strategies
  /\ pc' = "entry"
  /\ sim' = 0
  /\ year' = 0
  /\ state' = ZeroState
  /\ currentRunReturns' = <<>>
  /\ currentRunTrajectory' = <<>>
  /\ allRuns' = <<>>
  /\ trajectories' = <<>>
  /\ failures' = 0
  /\ auditRuns' = <<>>
  /\ result' = NoResult
  /\ lastOutcome' = NoOutcome
  /\ realAssumptions' = NoAssumptions
  /\ UNCHANGED <<NOMINAL_ASSUMPTIONS, CORRELATION_MATRIX, CHOL_L>>
  /\ UNCHANGED appVars

NextCalls ==
  Begin \/ StartRun \/ YearStep \/ FinishRun \/ Aggregate \/ Reenter

SpecCalls == InitCalls /\ [][NextCalls]_vars

(***************************************************************************)
(* SpecInflation: the first year of a run under any inflation rate         *)
(***************************************************************************)

\* Requests of the specification SpecInflation: a one-year horizon under
\* inflation rates from -300 to 300 percent.
InflationRequests ==
  {[DefaultInputs EXCEPT !.timeHorizon = 1, !.inflationRate = 100 * i] :
     i \in {-300, -200, -150, -101, -100, -99, -50, -3, 0, 3, 50, 100, 300}}

InitInflation == Entered(InflationRequests) /\ AppIdle

NextInflation == Begin \/ FirstRun \/ YearStep \/ YearNonFinite

SpecInflation == InitInflation /\ [][NextInflation]_vars

(***************************************************************************)
(* SpecScenario: one-year requests with the amounts of three worked cases  *)
(***************************************************************************)

\* 100000 invested, nothing spent, no inflation, no fee.
ScenarioA ==
  [DefaultInputs EXCEPT !.initialCash = 0,
                        !.initialInvestments = 100000 * CENTS,
                        !.annualSpend = 0, !.inflationRate = 0,
                        !.managementFee = 0, !.timeHorizon = 1]

\* 12000 invested, 6000 spent a year.
ScenarioB ==
  [DefaultInputs EXCEPT !.initialCash = 0,
                        !.initialInvestments = 12000 * CENTS,
                        !.annualSpend = 6000 * CENTS,
                        !.managementFee = 0, !.timeHorizon = 1]

\* 1000 invested, 2000 spent a year.
ScenarioC ==
  [DefaultInputs EXCEPT !.initialCash = 0,
                        !.initialInvestments = 1000 * CENTS,
                        !.annualSpend = 2000 * CENTS,
                        !.managementFee = 0, !.timeHorizon = 1]

\* Requests of the specification SpecScenario: the three cases, and each
\* with the default fee of 0.30 percent.
ScenarioRequests ==
  {ScenarioA, ScenarioB, ScenarioC}
    \cup {[r EXCEPT !.managementFee = DefaultInputs.managementFee] :
             r \in {ScenarioA, ScenarioB, ScenarioC}}

\* A year of 8.5 percent on stocks and 4 percent on bonds.
ScenarioAReturns == [stock |-> 850, bond |-> 400, cash |-> 0]

\* A year without any return.
ZeroReturns == [stock |-> 0, bond |-> 0, cash |-> 0]

\* The returns of SpecScenario: the two above and the loss of all stocks
\* and bonds.
ScenarioReturns ==
  {ScenarioAReturns, ZeroReturns,
   [stock |-> -10000, bond |-> -10000, cash |-> 0]}

InitScenario == Entered(ScenarioRequests) /\ AppIdle

YearStepScenario == Year(ScenarioReturns)

NextScenario ==
  Begin \/ StartRun \/ YearStepScenario \/ FinishRun \/ Aggregate

SpecScenario == InitScenario /\ [][NextScenario]_vars

(***************************************************************************)
(* App.tsx: the requests of the user interface                             *)
(*                                                                         *)
(* A published result is kept as the request it was computed for: the      *)
(* inputs and strategy given to runSimulation and the number of the        *)
(* request in order of issue.  The loading overlay is drawn over the page  *)
(* while isSimulating holds; no handler tests isSimulating, and the        *)
(* keyboard reaches the controls under the overlay.                        *)
(***************************************************************************)

\* What the user submits from the SetupView form (the horizon slider has
\* the range 5 .. 50).
FormInputs ==
  {DefaultInputs,
   [DefaultInputs EXCEPT !.annualSpend = 40000 * CENTS, !.timeHorizon = 20]}

\* Positions of the custom-allocation slider (0 .. 100 in steps of 5).
SliderValues == {25, 75}

\* runSimulation throws exactly when Array(timeHorizon) does.
RunSimulationThrows(simInputs) == ArrayThrows(simInputs.timeHorizon)

\* The result of runSimulation(simInputs, strat), issued as request req.
ResultOf(simInputs, strat, req) ==
  [returned |-> TRUE, inputs |-> simInputs, strategy |-> strat, req |-> req]

\* runSimulationAsync, lines 39-53, up to the setTimeout: the loading flag
\* is raised and the callback queued.
Scheduled(simInputs, strat, onComplete) ==
  /\ issued < MaxRequests
  /\ isSimulating' = TRUE
  /\ issued' = issued + 1
  /\ timers' = Append(timers, [simInputs |-> simInputs, strategy |-> strat,
                               onComplete |-> onComplete,
                               req |-> issued + 1])

\* SimulationView is rendered (lines 91-101).
SimulationViewShown == view = "SIMULATION" /\ results.returned

\* handleRunSimulation, lines 55-61: Run on the setup form.
HandleRunSimulation ==
  /\ view = "SETUP"
  /\ \E finalInputs \in FormInputs :
       /\ appInputs' = finalInputs
       /\ Scheduled(finalInputs, selectedStrategy, TRUE)
  /\ UNCHANGED <<view, selectedStrategy, results>>
  /\ UNCHANGED engineVars

\* A strategy tab: setSelectedStrategy and the effect of lines 74-78.
SetSelectedStrategy ==
  /\ SimulationViewShown
  /\ \E s \in Strategies \ {selectedStrategy} :
       /\ selectedStrategy' = s
       /\ Scheduled(appInputs, s, FALSE)
  /\ UNCHANGED <<view, appInputs, results>>
  /\ UNCHANGED engineVars

\* handleCustomAllocationChange, lines 63-71: the slider, shown under the
\* CUSTOM strategy; runs the simulation at once and publishes it.
HandleCustomAllocationChange ==
  /\ SimulationViewShown
  /\ selectedStrategy = "CUSTOM"
  /\ issued < MaxRequests
  /\ \E newAlloc \in SliderValues :
       LET updated == [appInputs EXCEPT !.customStockAllocation = newAlloc]
       IN /\ appInputs' = updated
          /\ results' = ResultOf(updated, "CUSTOM", issued + 1)
  /\ issued' = issued + 1
  /\ UNCHANGED <<view, isSimulating, selectedStrategy, timers>>
  /\ UNCHANGED engineVars

\* onEdit, line 97: back to the setup form.
OnEdit ==
  /\ SimulationViewShown
  /\ view' = "SETUP"
  /\ UNCHANGED <<isSimulating, appInputs, selectedStrategy, results, timers,
                 issued>>
  /\ UNCHANGED engineVars

\* The setTimeout callback of runSimulationAsync, lines 42-52; timers of
\* equal delay fire in the order they were set.
TimerFires ==
  /\ timers # <<>>
  /\ LET t == Head(timers)
     IN /\ results' = IF RunSimulationThrows(t.simInputs) THEN results
                      ELSE ResultOf(t.simInputs, t.strategy, t.req)
        /\ isSimulating' = FALSE
        /\ view' = IF t.onComplete THEN "SIMULATION" ELSE view
  /\ timers' = Tail(timers)
  /\ UNCHANGED <<appInputs, selectedStrategy, issued>>
  /\ UNCHANGED engineVars

\* The engine is idle in SpecApp: its variables keep these values.
InitApp ==
  /\ AppIdle
  /\ inputs = DefaultInputs
  /\ strategy = "BUCKET"
  /\ pc = "idle"
  /\ sim = 0
  /\ year = 0
  /\ state = ZeroState
  /\ currentRunReturns = <<>>
  /\ currentRunTrajectory = <<>>
  /\ allRuns = <<>>
  /\ trajectories = <<>>
  /\ failures = 0
  /\ auditRuns = <<>>
  /\ result = NoResult
  /\ lastOutcome = NoOutcome
  /\ realAssumptions = NoAssumptions
  /\ ModuleLoaded

NextApp ==
  \/ HandleRunSimulation
  \/ SetSelectedStrategy
  \/ HandleCustomAllocationChange
  \/ OnEdit
  \/ TimerFires

SpecApp == InitApp /\ [][NextApp]_vars

(***************************************************************************)
(* SpecAppOnRun: App at its onRun interface                                *)
(*                                                                         *)
(* handleRunSimulation takes whatever SimulationInputs its child hands it. *)
(* The horizon slider of SetupView stays within 5 .. 50; here the request  *)
(* may also be one on which runSimulation throws, so that the catch and    *)
(* finally blocks of the deferred runner are exercised.                    *)
(***************************************************************************)

\* The arguments of onRun: those of the form and one with a negative
\* horizon, on which Array(timeHorizon) throws.
OnRunInputs ==
  FormInputs \cup {[DefaultInputs EXCEPT !.timeHorizon = -1]}

\* handleRunSimulation, lines 55-61, for any argument.
HandleRunSimulationAny ==
  /\ view = "SETUP"
  /\ \E finalInputs \in OnRunInputs :
       /\ appInputs' = finalInputs
       /\ Scheduled(finalInputs, selectedStrategy, TRUE)
  /\ UNCHANGED <<view, selectedStrategy, results>>
  /\ UNCHANGED engineVars

NextAppOnRun ==
  \/ HandleRunSimulationAny
  \/ SetSelectedStrategy
  \/ HandleCustomAllocationChange
  \/ OnEdit
  \/ TimerFires

SpecAppOnRun == InitApp /\ [][NextAppOnRun]_vars

(***************************************************************************)
(* CLAIMS                                                                  *)
(***************************************************************************)

\* The depleted state: all three buckets at zero.
Depleted(st) == st.stock = 0 /\ st.bond = 0 /\ st.cash = 0

\* C1: after every Year Transition, for every strategy and every request
\* runSimulation accepts, stock >= 0, bond >= 0 and cash >= 0.
C1_BucketsNonNegative ==
  (pc = "year" /\ year >= 1) =>
    state.stock >= 0 /\ state.bond >= 0 /\ state.cash >= 0

\* C2: depletion is absorbing: a Year Transition from the depleted state
\* (stock = bond = cash = 0) yields the depleted state again, for any
\* returns and either strategy branch.
C2_DepletionAbsorbing ==
  [][(pc = "year" /\ Depleted(state) /\ year' = year + 1)
       => Depleted(state')]_vars

\* A run that held money, depleted, and went through a further year.
C2_Witness ==
  /\ pc = "year"
  /\ year >= 2
  /\ inputs.initialCash + inputs.initialInvestments > 0
  /\ inputs.managementFee <= BP
  /\ currentRunTrajectory[year - 1] = 0
  /\ Depleted(state)

\* The totals a ledger reports at the end of each year.
EndTotals(log) == [t \in 1 .. Len(log) |-> log[t].endTotal]

\* C3: audit replay is exact: replaying a run's stored returns through
\* generateAuditLog from the request's initial allocation yields, year for
\* year, the endTotal that runSimulation recorded in the run's trajectory;
\* so do the three ledgers of the result for the three selected runs.
C3_AuditReplayExact ==
  pc = "done" =>
    /\ \A i \in 1 .. Len(allRuns) :
         EndTotals(generateAuditLog(inputs, strategy, allRuns[i].annualReturns))
           = allRuns[i].trajectory
    /\ EndTotals(result.auditLogDownturn) = auditRuns.downturn.trajectory
    /\ EndTotals(result.auditLogBelowAverage) = auditRuns.belowAvg.trajectory
    /\ EndTotals(result.auditLogAverage) = auditRuns.median.trajectory

\* A two-year BUCKET result whose downturn and median ledgers differ and end
\* above zero.
C3_Witness ==
  /\ pc = "done"
  /\ strategy = "BUCKET"
  /\ Len(result.auditLogDownturn) = 2
  /\ result.auditLogDownturn[2].endTotal > 0
  /\ result.auditLogDownturn[2].endTotal < result.auditLogAverage[2].endTotal

\* The final balances of all runs, ascending.
RankedFinals ==
  SortSeq([i \in 1 .. Len(allRuns) |-> allRuns[i].finalBalance],
          LAMBDA a, b : a < b)

\* C4: the three runs chosen for the audit ledgers are ordered: final balance
\* of the downturn run <= that of the below-average run <= that of the
\* median run.
C4_SelectedRunsOrdered ==
  pc = "done" =>
    /\ auditRuns.downturn.finalBalance <= auditRuns.belowAvg.finalBalance
    /\ auditRuns.belowAvg.finalBalance <= auditRuns.median.finalBalance

\* C5: the representative runs are chosen by rank: among the final balances
\* sorted ascending, the downturn run is the one at index floor(N * 0.10),
\* the below-average run at floor(N * 0.25), the median run at
\* floor(N * 0.50).
C5_SelectedByRank ==
  pc = "done" =>
    /\ auditRuns.downturn.finalBalance
         = RankedFinals[(NUM_SIMULATIONS * 10) \div 100 + 1]
    /\ auditRuns.belowAvg.finalBalance
         = RankedFinals[(NUM_SIMULATIONS * 25) \div 100 + 1]
    /\ auditRuns.median.finalBalance
         = RankedFinals[(NUM_SIMULATIONS * 50) \div 100 + 1]

\* The requests section 7 of the specification calls invalid.
InvalidRequest(inp) ==
  \/ inp.timeHorizon <= 0
  \/ inp.initialCash < 0
  \/ inp.initialInvestments < 0
  \/ inp.annualSpend < 0
  \/ inp.customStockAllocation < 0
  \/ inp.customStockAllocation > 100

\* C7: an invalid request is rejected before any simulation year is
\* executed: no year is simulated and no SimulationResult is produced.
C7_InvalidRejected ==
  InvalidRequest(inputs) => (year = 0 /\ ~result.returned)

\* C8: at every point of the percentile curve, the year-0 point included,
\* downturn <= belowAverage <= average.
C8_PercentileMonotone ==
  result.returned =>
    \A i \in 1 .. Len(result.data) :
      /\ result.data[i].downturn <= result.data[i].belowAverage
      /\ result.data[i].belowAverage <= result.data[i].average

\* A result with a year whose three percentiles are strictly apart.
C8_Witness ==
  /\ result.returned
  /\ \E i \in 1 .. Len(result.data) :
       /\ result.data[i].downturn < result.data[i].belowAverage
       /\ result.data[i].belowAverage < result.data[i].average

\* C9: the percentile curve has timeHorizon + 1 points, and its point at
\* index 0 has all three bands equal to initialCash + initialInvestments.
C9_CurveShape ==
  result.returned =>
    /\ Len(result.data) = inputs.timeHorizon + 1
    /\ result.data[1].downturn = inputs.initialCash + inputs.initialInvestments
    /\ result.data[1].belowAverage
         = inputs.initialCash + inputs.initialInvestments
    /\ result.data[1].average = inputs.initialCash + inputs.initialInvestments

\* A two-year result of a request with cash and investments.
C9_Witness ==
  /\ result.returned
  /\ inputs.timeHorizon = 2
  /\ inputs.initialCash > 0
  /\ inputs.initialInvestments > 0
  /\ Len(result.data) = 3

\* The runs whose final balance is at most 1 currency unit.
DepletedRuns ==
  {i \in 1 .. Len(allRuns) : allRuns[i].finalBalance <= 1 * CENTS}

\* C10: successRate = (N - depletedCount) / N * 100, a run counting as
\* depleted exactly when its final balance is <= 1; it lies in [0, 100].
\* (successRate is kept in hundredths of a percent.)
C10_SuccessRate ==
  result.returned =>
    /\ result.successRate
         = ((NUM_SIMULATIONS - Cardinality(DepletedRuns)) * 100 * 100)
             \div NUM_SIMULATIONS
    /\ result.successRate >= 0
    /\ result.successRate <= 100 * 100

\* A result in which some runs but not all are depleted, one of them with a
\* final balance above the depletion threshold 0.01.
C10_Witness ==
  /\ result.returned
  /\ Cardinality(DepletedRuns) \in 1 .. NUM_SIMULATIONS - 1
  /\ \E i \in DepletedRuns : allRuns[i].finalBalance > 1

\* C6: a superseded request never overwrites published results: whenever no
\* deferred run is pending, the published results are those of the most
\* recently issued request.
C6_LatestRequestPublished ==
  (timers = <<>> /\ results.returned) => results.req = issued

\* Every run of the call has ended in the depleted state.
AllRunsDepleted ==
  /\ Len(allRuns) = NUM_SIMULATIONS
  /\ \A i \in 1 .. Len(allRuns) : allRuns[i].finalBalance = 0

\* The values of one band of the percentile curve, year 0 first.
Band(data, name) ==
  [i \in 1 .. Len(data) |->
     CASE name = "downturn" -> data[i].downturn
       [] name = "belowAverage" -> data[i].belowAverage
       [] OTHER -> data[i].average]

\* A band that ends at zero and, once at zero, stays there.
ReachesZeroAndStays(band) ==
  /\ band[Len(band)] = 0
  /\ \A i \in 1 .. Len(band) - 1 : band[i] = 0 => band[i + 1] = 0

\* C11: if every run depletes, runSimulation raises no error and returns a
\* normal result: successRate 0, each percentile band reaching zero and
\* staying there, and three audit ledgers of timeHorizon rows.
C11_AllDepletedIsNormal ==
  AllRunsDepleted =>
    /\ pc \in {"sim", "done"}
    /\ pc = "done" =>
         /\ result.returned
         /\ result.successRate = 0
         /\ \A name \in {"downturn", "belowAverage", "average"} :
              ReachesZeroAndStays(Band(result.data, name))
         /\ Len(result.auditLogDownturn) = inputs.timeHorizon
         /\ Len(result.auditLogBelowAverage) = inputs.timeHorizon
         /\ Len(result.auditLogAverage) = inputs.timeHorizon

\* A two-year result in which every run depleted in the second year, the
\* median band still above zero after the first.
C11_Witness ==
  /\ pc = "done"
  /\ AllRunsDepleted
  /\ inputs.timeHorizon = 2
  /\ result.data[2].average > 0
  /\ result.data[3].average = 0

\* min(1, 2 * annualSpend / startTotal) in basis points; with nothing to
\* start from, the buffer of 2 * annualSpend covers the whole portfolio.
ExpectedCashWeight(inp) ==
  LET startTotal == inp.initialCash + inp.initialInvestments
  IN IF 2 * inp.annualSpend >= startTotal THEN BP
     ELSE Quotient(2 * inp.annualSpend, startTotal).v

\* C12: the reported allocation is stock 0.60 / bond 0.40 for CONSERVATIVE,
\* stock 0.70 / bond 0.30 for AGGRESSIVE, and for BUCKET bond 0 with cash
\* weight min(1, 2 * annualSpend / startTotal) and stock the remainder, also
\* when startTotal is 0.
C12_ReportedAllocation ==
  result.returned =>
    CASE strategy = "CONSERVATIVE" ->
           /\ result.allocation.stock = Finite(6000)
           /\ result.allocation.bond = Finite(4000)
      [] strategy = "AGGRESSIVE" ->
           /\ result.allocation.stock = Finite(7000)
           /\ result.allocation.bond = Finite(3000)
      [] strategy = "BUCKET" ->
           /\ result.allocation.bond = Finite(0)
           /\ result.allocation.cash = Finite(ExpectedCashWeight(inputs))
           /\ result.allocation.stock = Finite(BP - ExpectedCashWeight(inputs))
      [] OTHER -> TRUE

\* C13: runSimulation keeps no hidden state between calls: no step of a call
\* changes the Cholesky factor, the nominal assumption table, the correlation
\* matrix or the caller's request object, and in every call, whatever calls
\* came before, the real assumptions are those derived from the call's own
\* request and the tables as loaded.
C13_NoHiddenState ==
  /\ [][/\ CHOL_L' = CHOL_L
        /\ NOMINAL_ASSUMPTIONS' = NOMINAL_ASSUMPTIONS
        /\ CORRELATION_MATRIX' = CORRELATION_MATRIX
        /\ calls' = calls => inputs' = inputs]_vars
  /\ [](pc # "entry" =>
          realAssumptions = [a \in DOMAIN NominalTable |->
                               RealAssumption(NominalTable[a],
                                              inputs.inflationRate)])

\* A second call that has returned a result, under 6 percent inflation.
C13_Witness ==
  /\ calls = 2
  /\ pc = "done"
  /\ result.returned
  /\ inputs.inflationRate = 600

\* C14: no Year Transition changes the spend target: nextState.spend equals
\* state.spend, so in every year of a run spend is the request's annualSpend.
C14_SpendConstant ==
  pc = "year" =>
    /\ state.spend = inputs.annualSpend
    /\ year >= 1 => lastOutcome.nextState.spend = inputs.annualSpend

\* A run in its third year after a year in which less than the spend target
\* could be withdrawn.
C14_Witness ==
  /\ pc = "year"
  /\ year >= 2
  /\ inputs.annualSpend > 0
  /\ lastOutcome.withdrawal < inputs.annualSpend
  /\ state.spend = inputs.annualSpend

\* C15: under BUCKET, in a year whose stock return is negative, stock is
\* sold only once the cash bucket is used up: if the stock after the
\* transition is below the stock after fees, the cash after the transition
\* is 0 and the whole cash held before the withdrawal was spent.
C15_NoSaleInDownturnWhileCash ==
  [][(pc = "year" /\ year' = year + 1 /\ strategy = "BUCKET") =>
       LET returns == currentRunReturns'[year']
           postFee == YearPrefix(state, returns, inputs)
       IN (returns.stock < 0 /\ state'.stock < postFee.currStock) =>
            /\ state'.cash = 0
            /\ lastOutcome'.withdrawal >= postFee.currCash]_vars

\* The third year of a BUCKET run, a down year entered with stock and with
\* less cash than was withdrawn: stock has been sold and no cash is left.
C15_Witness ==
  /\ pc = "year"
  /\ year = 3
  /\ inputs.timeHorizon = 3
  /\ strategy = "BUCKET"
  /\ currentRunReturns[3].stock < 0
  /\ LET row == generateAuditLog(inputs, strategy, currentRunReturns)[3]
     IN /\ row.startStock > 0
        /\ row.withdrawal > row.startCash
        /\ state.stock < row.startStock
  /\ state.cash = 0

\* C16: in every state of a run, the initial one included, the bond bucket
\* is 0 under BUCKET and the cash bucket is 0 under CONSERVATIVE, AGGRESSIVE
\* and CUSTOM.
C16_StrategyExposure ==
  pc = "year" =>
    IF strategy = "BUCKET" THEN state.bond = 0 ELSE state.cash = 0

\* A BUCKET run after an up year that refilled the cash buffer, holding
\* stock and cash.
C16_Witness ==
  /\ pc = "year"
  /\ year >= 1
  /\ strategy = "BUCKET"
  /\ lastOutcome.actionLog = "Market Up. Refilled Cash."
  /\ state.stock > 0
  /\ state.cash > 0
  /\ state.bond = 0

C19_FeeOnInvestedOnly ==
  [][(pc = "year" /\ year' = year + 1) =>
       LET returns    == currentRunReturns'[year']
           grownStock == Times(state.stock, BP + returns.stock)
           grownBond  == Times(state.bond, BP + returns.bond)
           grownCash  == Times(state.cash, BP + returns.cash)
           stockFee   == Times(grownStock, inputs.managementFee)
           bondFee    == Times(grownBond, inputs.managementFee)
           fees       == lastOutcome'.fees
       IN /\ fees = stockFee + bondFee
          /\ (state.stock = 0 /\ state.bond = 0) => fees = 0
          /\ (strategy = "BUCKET"
                /\ lastOutcome'.actionLog # "Portfolio Depleted.") =>
                state'.stock + state'.bond + state'.cash
                    + lastOutcome'.withdrawal
                  = (grownStock - stockFee) + (grownBond - bondFee)
                      + grownCash]_vars

\* A first year in which a BUCKET portfolio holding stock and cash paid a fee
\* and was not depleted.
C19_Witness ==
  /\ pc = "year" /\ year = 1 /\ strategy = "BUCKET"
  /\ InitialState(inputs, strategy).cash > 0
  /\ InitialState(inputs, strategy).stock > 0
  /\ lastOutcome.fees > 0
  /\ lastOutcome.actionLog # "Portfolio Depleted."

\* C20: the depletion rule. A year whose total after growth and fees is at
\* most 0.01, or, under a fixed-allocation strategy, whose total after the
\* withdrawal and the rebalancing drag is at most 0.01, ends with all three
\* buckets at 0 and the action "Portfolio Depleted."; when the total after
\* growth and fees is 0, the reported withdrawal is 0 and so is the end
\* total.
C20_DepletionRule ==
  [][(pc = "year" /\ year' = year + 1) =>
       LET returns == currentRunReturns'[year']
           totalAvailable == YearPrefix(state, returns, inputs).totalAvailable
           afterWithdrawal == totalAvailable - lastOutcome'.withdrawal
           afterDrag == afterWithdrawal
                          - Times(afterWithdrawal, REBALANCE_DRAG)
           depleted ==
             \/ totalAvailable <= DEPLETION_THRESHOLD
             \/ strategy # "BUCKET" /\ afterDrag <= DEPLETION_THRESHOLD
       IN /\ depleted =>
               /\ state'.stock = 0 /\ state'.bond = 0 /\ state'.cash = 0
               /\ lastOutcome'.actionLog = "Portfolio Depleted."
          /\ totalAvailable = 0 =>
               /\ lastOutcome'.withdrawal = 0
               /\ currentRunTrajectory'[year'] = 0]_vars

\* A fixed-allocation run without fees that spent all it had in its first
\* year, with more than 0.01 available, and so depleted by the rule on the
\* total after withdrawal, and that found a total of 0 in its second year.
C20_Witness ==
  /\ pc = "year" /\ year = 2 /\ strategy # "BUCKET"
  /\ inputs.managementFee = 0 /\ inputs.annualSpend > 0
  /\ InitialState(inputs, strategy).stock > 0
  /\ currentRunReturns[1].stock > -BP
  /\ currentRunTrajectory[1] = 0
  /\ lastOutcome.actionLog = "Portfolio Depleted."
  /\ lastOutcome.withdrawal = 0

\* What is left of the proceeds of a stock sale after the transaction-cost
\* haircut, the friction being the fraction of the rebalancing drag.
NetOfFriction(sale) == sale - Times(sale, REBALANCE_DRAG)

\* C21: the BUCKET refill. In a year that does not deplete, when the stock
\* return is positive and the cash after growth is below the buffer of twice
\* the spend, min(buffer - cash, stock) is sold from stock and cash grows by
\* that amount net of the friction haircut; otherwise no refill sale
\* happens. (Observed in the years whose cash covers the withdrawal, where
\* the spending step leaves stock alone.)
C21_RefillNetOfFriction ==
  [][(pc = "year" /\ year' = year + 1 /\ strategy = "BUCKET"
        /\ lastOutcome'.actionLog # "Portfolio Depleted.") =>
       LET returns == currentRunReturns'[year']
           p == YearPrefix(state, returns, inputs)
           buffer == 2 * state.spend
           sold == Min(buffer - p.currCash, p.currStock)
           withdrawal == lastOutcome'.withdrawal
       IN IF returns.stock > 0 /\ p.currCash < buffer
            THEN p.currCash + NetOfFriction(sold) >= withdrawal =>
                   /\ state'.stock = p.currStock - sold
                   /\ state'.cash = p.currCash + NetOfFriction(sold)
                                      - withdrawal
            ELSE p.currCash >= withdrawal =>
                   /\ state'.stock = p.currStock
                   /\ state'.cash = p.currCash - withdrawal]_vars

\* The stock to sell for the proceeds net of the friction haircut to cover
\* a shortfall: shortfall / (1 - frictionRate).
GrossSellNeeded(shortfall) == (shortfall * BP) \div (BP - REBALANCE_DRAG)

\* C22: the BUCKET spending step. In a year that does not deplete, the
\* withdrawal is taken from cash first: if cash is smaller than the
\* withdrawal, cash becomes 0 and stock is reduced by
\* shortfall / (1 - frictionRate), clamped at 0; if cash covers the
\* withdrawal, stock is not touched. (Observed in the years without a
\* positive stock return, where no refill precedes the spending step.)
C22_SpendCashFirst ==
  [][(pc = "year" /\ year' = year + 1 /\ strategy = "BUCKET"
        /\ lastOutcome'.actionLog # "Portfolio Depleted.") =>
       LET returns == currentRunReturns'[year']
           p == YearPrefix(state, returns, inputs)
           withdrawal == lastOutcome'.withdrawal
           sold == GrossSellNeeded(withdrawal - p.currCash)
       IN returns.stock <= 0 =>
            IF p.currCash < withdrawal
              THEN /\ state'.cash = 0
                   /\ state'.stock = IF p.currStock - sold < 0 THEN 0
                                      ELSE p.currStock - sold
              ELSE /\ state'.cash = p.currCash - withdrawal
                   /\ state'.stock = p.currStock]_vars

\* C23: the fixed-allocation transition. In a year of CONSERVATIVE,
\* AGGRESSIVE or CUSTOM that does not deplete, with T the total after growth
\* and fees, less the withdrawal, less the drag of 0.05 percent of that, the
\* next state is stock = T * stockWeight, bond = T * bondWeight, cash = 0;
\* 100000 at 60/40 with returns of 8.5 and 4 percent, no fee and no spend
\* ends the year at 106646.65.
C23_FixedAllocationTransition ==
  [][(pc = "year" /\ year' = year + 1 /\ strategy # "BUCKET") =>
       LET returns == currentRunReturns'[year']
           p == YearPrefix(state, returns, inputs)
           afterWithdrawal == p.totalAvailable - lastOutcome'.withdrawal
           T == afterWithdrawal - Times(afterWithdrawal, REBALANCE_DRAG)
           weights == TargetWeights(inputs, strategy)
       IN /\ lastOutcome'.actionLog # "Portfolio Depleted." =>
               /\ state'.stock = Times(T, weights.stock)
               /\ state'.bond = Times(T, weights.bond)
               /\ state'.cash = 0
          /\ (inputs = ScenarioA /\ strategy = "CONSERVATIVE"
                /\ returns = ScenarioAReturns) =>
               currentRunTrajectory'[year'] = 106646 * CENTS + 65]_vars

\* The year of the worked case has been simulated.
C23_Witness ==
  /\ pc = "year" /\ year = 1
  /\ inputs = ScenarioA /\ strategy = "CONSERVATIVE"
  /\ currentRunReturns[1] = ScenarioAReturns
  /\ lastOutcome.actionLog = "Rebalanced."

\* The allocation a run starts from, as the specification gives it.
ExpectedInitialBuckets(inp, strat) ==
  LET startTotal == inp.initialCash + inp.initialInvestments
      bufferCash == Min(startTotal, 2 * inp.annualSpend)
  IN IF strat = "BUCKET"
       THEN [stock |-> startTotal - bufferCash, bond |-> 0,
             cash |-> bufferCash]
       ELSE [stock |-> Times(startTotal, TargetWeights(inp, strat).stock),
             bond |-> Times(startTotal, TargetWeights(inp, strat).bond),
             cash |-> 0]

\* The first row of a ledger starts from the buckets b.
StartsFrom(ledger, b) ==
  /\ ledger[1].startStock = b.stock
  /\ ledger[1].startBond = b.bond
  /\ ledger[1].startCash = b.cash

\* C24: the initial allocation is the same in the Monte Carlo driver and in
\* the audit replay: BUCKET starts with cash = min(startTotal, 2 *
\* annualSpend), stock = startTotal - cash and bond = 0; the fixed-allocation
\* strategies start with stock and bond at the target weights of startTotal
\* and cash = 0. BUCKET with 12000 and a spend of 6000 starts all in cash
\* and ends its first year at 6000 under zero returns.
C24_InitialAllocation ==
  LET expected == ExpectedInitialBuckets(inputs, strategy)
  IN /\ (pc = "year" /\ year = 0) =>
          /\ state.stock = expected.stock
          /\ state.bond = expected.bond
          /\ state.cash = expected.cash
     /\ (result.returned /\ inputs.timeHorizon >= 1) =>
          /\ StartsFrom(result.auditLogAverage, expected)
          /\ StartsFrom(result.auditLogBelowAverage, expected)
          /\ StartsFrom(result.auditLogDownturn, expected)
     /\ (inputs = ScenarioB /\ strategy = "BUCKET" /\ pc = "year") =>
          /\ year = 0 => state.cash = 12000 * CENTS /\ state.stock = 0
          /\ (year = 1 /\ currentRunReturns[1] = ZeroReturns) =>
               currentRunTrajectory[1] = 6000 * CENTS

\* The worked BUCKET case has been simulated and replayed: the ledger of the
\* median run starts all in cash and ends its year at 6000.
C24_Witness ==
  /\ result.returned
  /\ inputs = ScenarioB /\ strategy = "BUCKET"
  /\ result.auditLogAverage[1].startCash = 12000 * CENTS
  /\ result.auditLogAverage[1].stockReturn = 0
  /\ result.auditLogAverage[1].endTotal = 6000 * CENTS

\* C25: in every BUCKET year that does not deplete, the action text is the
\* one of four that names what happened: in a down year, spending from the
\* cash buffer when the withdrawal was paid from cash in full, the forced
\* stock sale when stock was sold to fund the withdrawal; in an up year, the
\* refill when a positive amount was moved into cash, and the plain text
\* when none was. The forced-sale text appears only in years in which stock
\* was sold to fund the withdrawal.
C25_ActionTextClassifies ==
  [][(pc = "year" /\ year' = year + 1 /\ strategy = "BUCKET"
        /\ lastOutcome'.actionLog # "Portfolio Depleted.") =>
       LET returns == currentRunReturns'[year']
           p == YearPrefix(state, returns, inputs)
           buffer == 2 * state.spend
           refilled == IF returns.stock > 0 /\ p.currCash < buffer
                         THEN Min(buffer - p.currCash, p.currStock) ELSE 0
           stockSold == state'.stock < p.currStock
           text == lastOutcome'.actionLog
       IN IF returns.stock < 0
            THEN IF stockSold
                   THEN text = "Market Down. Cash Empty! Forced Stock Sell."
                   ELSE text = "Market Down. Spending from Cash Buffer."
            ELSE IF refilled > 0
                   THEN text = "Market Up. Refilled Cash."
                   ELSE text = "Market Up."]_vars

\* C26: BUCKET transitions conserve wealth. In every BUCKET year that does
\* not deplete, next stock + next cash is the total after growth and fees
\* less the withdrawal, that total being the start total + growth - fees;
\* and a shortfall of cash never exceeds the stock there is to sell, so that
\* clamping stock at 0 discards nothing.
C26_BucketConservesWealth ==
  [][(pc = "year" /\ year' = year + 1 /\ strategy = "BUCKET"
        /\ lastOutcome'.actionLog # "Portfolio Depleted.") =>
       LET returns == currentRunReturns'[year']
           p == YearPrefix(state, returns, inputs)
           startTotal == state.stock + state.bond + state.cash
           withdrawal == lastOutcome'.withdrawal
       IN /\ p.totalAvailable
                = startTotal + lastOutcome'.growth - lastOutcome'.fees
          /\ state'.stock + state'.cash = p.totalAvailable - withdrawal
          /\ p.currCash < withdrawal =>
                withdrawal - p.currCash <= p.currStock]_vars

\* A BUCKET year in which stock was sold into cash, money was withdrawn and
\* stock is left.
C26_Witness ==
  /\ pc = "year" /\ year >= 1 /\ strategy = "BUCKET"
  /\ lastOutcome.actionLog = "Market Up. Refilled Cash."
  /\ lastOutcome.withdrawal > 0
  /\ state.stock > 0 /\ state.cash > 0

\* C27: finalMedianValue of the result equals the average (50th percentile)
\* value of the last point of the percentile curve: both are the entry at
\* index floor(N * 0.50) of the sorted final-year portfolio totals.
C27_FinalMedianIsLastAverage ==
  result.returned =>
    /\ result.finalMedianValue = result.data[Len(result.data)].average
    /\ inputs.timeHorizon >= 1 =>
         result.finalMedianValue =
           AtPercentile(SortAscending([i \in 1 .. Len(allRuns) |->
                          allRuns[i].trajectory[inputs.timeHorizon]]), 50)

\* A result over two years whose runs ended at different totals, the median
\* of them positive and holding cash.
C27_Witness ==
  /\ result.returned /\ inputs.timeHorizon = 2 /\ strategy = "BUCKET"
  /\ result.finalMedianValue > 0
  /\ \E i, j \in 1 .. Len(allRuns) :
       allRuns[i].finalBalance # allRuns[j].finalBalance

\* The rows of a ledger are as many as the horizon, their years consecutive,
\* each row after the first starting from the end total of the row before
\* it, and the first from the buckets b.
LedgerChains(ledger, horizon, b) ==
  /\ Len(ledger) = horizon
  /\ \A t \in 1 .. Len(ledger) :
       /\ ledger[t].year = t
       /\ t >= 2 =>
            ledger[t].startCash + ledger[t].startStock + ledger[t].startBond
              = ledger[t - 1].endTotal
  /\ Len(ledger) >= 1 => StartsFrom(ledger, b)

\* C28: each audit ledger has exactly timeHorizon rows with consecutive
\* years, and the rows chain: for every year t >= 2 the start buckets of row
\* t add up to the endTotal of row t - 1, and row 1 starts from the
\* request's initial allocation.
C28_LedgerChains ==
  result.returned =>
    LET b == ExpectedInitialBuckets(inputs, strategy)
    IN /\ LedgerChains(result.auditLogAverage, inputs.timeHorizon, b)
       /\ LedgerChains(result.auditLogBelowAverage, inputs.timeHorizon, b)
       /\ LedgerChains(result.auditLogDownturn, inputs.timeHorizon, b)

\* A BUCKET result over two years whose median ledger carries cash and stock
\* from its first row into its second.
C28_Witness ==
  /\ result.returned /\ inputs.timeHorizon = 2 /\ strategy = "BUCKET"
  /\ Len(result.auditLogAverage) = 2
  /\ result.auditLogAverage[2].startCash > 0
  /\ result.auditLogAverage[2].startStock > 0
  /\ result.auditLogAverage[1].endTotal > 0

\* C29: the loading flag tracks pending work: isSimulating is true whenever
\* a deferred simulation has been scheduled and has not yet finished, and
\* false once none is pending.
C29_LoadingFlagTracksPending ==
  isSimulating <=> (timers # <<>>)

====
